---------------------------- MODULE Spec2Model ----------------------------
(***************************************************************************)
(* smartformat-korean: selection of Korean particle allomorphs.            *)
(*                                                                         *)
(* Text is modelled as Python models it: a string is a sequence of code    *)
(* points, a character is a string of length 1.  Python's None is the      *)
(* value None below, which is no string (no string holds code point -1).   *)
(* An operation that raises leaves the name of the exception in `raised`.  *)
(***************************************************************************)
EXTENDS Integers, Sequences, FiniteSets, TLC

VARIABLES
    pc,        \* which operation has been applied to the inputs
    letter,    \* input of the phoneme codec: a string
    phonemes,  \* result of split_phonemes: (initial, vowel, final)
    word,      \* the word a particle is attached to
    option,    \* the requested particle form
    style,     \* the tolerance style
    explicit,  \* TRUE for {:ko(option):...}, FALSE for the implicit {:option}
    coda,      \* the coda inferred for the word (or given to allomorph)
    particle,  \* the particle selected by the lookup
    out,       \* the result of the operation, a string or None
    raised,    \* the exception the operation raised, "" when it returned
    pair,      \* the two forms given to generate_tolerances
    yielded,   \* the strings generate_tolerances yielded, in order
    tolerance_style,  \* KoreanExtension.tolerance_style
    catalogue,        \* the list of particles a registry is built from
    particle_index,   \* _particle_index: the (form, particle) entries
    cursor,    \* the place of the loop that builds _particle_index
    threads,   \* each thread's call of a particle: position and locals
    cache,     \* each particle's _tolerance attribute, None while unset
    history    \* the (inputs, result) of every call that has returned

vars == <<pc, letter, phonemes, word, option, style, explicit,
          coda, particle, out, raised, pair, yielded, tolerance_style,
          catalogue, particle_index, cursor, threads, cache, history>>

\* The variables of the tolerance generator, of the extension object, of
\* the registry construction and of the threads.
elsewhere == <<pair, yielded, tolerance_style, catalogue, particle_index,
               cursor, threads, cache, history>>

None == <<-1>>

----------------------------------------------------------------------------
(* Python helpers                                                          *)

\* list(u'...'): the list of the one-character strings of a string.
Chars(s) == [i \in 1..Len(s) |-> <<s[i]>>]

\* x in list
Has(list, x) == \E i \in 1..Len(list) : list[i] = x

\* list.index(x), 0-based; the caller checks Has first (ValueError otherwise).
IndexOf(list, x) ==
    (CHOOSE i \in 1..Len(list) :
        list[i] = x /\ \A j \in 1..(i - 1) : list[j] # x) - 1

\* a <= b on strings: lexicographic on code points.
RECURSIVE StrLe(_, _)
StrLe(a, b) ==
    IF a = <<>> THEN TRUE
    ELSE IF b = <<>> THEN FALSE
    ELSE IF a[1] # b[1] THEN a[1] < b[1]
    ELSE StrLe(Tail(a), Tail(b))

\* s[i:] and s[:j] with 0-based i, j in 0..len(s)
From(s, i) == SubSeq(s, i + 1, Len(s))
Upto(s, j) == SubSeq(s, 1, j)

StartsWith(s, p) == Len(p) <= Len(s) /\ SubSeq(s, 1, Len(p)) = p
EndsWith(s, p) == Len(p) <= Len(s) /\ SubSeq(s, Len(s) - Len(p) + 1, Len(s)) = p

----------------------------------------------------------------------------
(* hangul.py                                                               *)

\* ㄱㄲㄴㄷㄸㄹㅁㅂㅃㅅㅆㅇㅈㅉㅊㅋㅌㅍㅎ
INITIALS == Chars(<<12593, 12594, 12596, 12599, 12600, 12601, 12609, 12610,
                    12611, 12613, 12614, 12615, 12616, 12617, 12618, 12619,
                    12620, 12621, 12622>>)
\* ㅏㅐㅑㅒㅓㅔㅕㅖㅗㅘㅙㅚㅛㅜㅝㅞㅟㅠㅡㅢㅣ
VOWELS == Chars(<<12623, 12624, 12625, 12626, 12627, 12628, 12629, 12630,
                  12631, 12632, 12633, 12634, 12635, 12636, 12637, 12638,
                  12639, 12640, 12641, 12642, 12643>>)
\* [None] + ㄱㄲㄳㄴㄵㄶㄷㄹㄺㄻㄼㄽㄾㄿㅀㅁㅂㅄㅅㅆㅇㅈㅊㅋㅌㅍㅎ
FINALS == <<None>> \o
          Chars(<<12593, 12594, 12595, 12596, 12597, 12598, 12599, 12601,
                  12602, 12603, 12604, 12605, 12606, 12607, 12608, 12609,
                  12610, 12612, 12613, 12614, 12615, 12616, 12618, 12619,
                  12620, 12621, 12622>>)

NUM_INITIALS == Len(INITIALS)
NUM_VOWELS == Len(VOWELS)
NUM_FINALS == Len(FINALS)

\* ord(u'가')
FIRST_HANGUL_OFFSET == 44032
\* ord(u'힣')
LAST_HANGUL == 55203

\* u'가' <= letter <= u'힣'
is_hangul(l) == StrLe(<<FIRST_HANGUL_OFFSET>>, l) /\ StrLe(l, <<LAST_HANGUL>>)

\* split_phonemes raises ValueError
split_raises(l) == Len(l) # 1 \/ ~is_hangul(l)

\* split_index with the vowel slot taken from the offset without first
\* dividing the finals out.
split_index_undivided(l) ==
    LET offset == l[1] - FIRST_HANGUL_OFFSET
    IN  << offset \div (NUM_VOWELS * NUM_FINALS),
           offset % NUM_VOWELS,
           offset % NUM_FINALS >>

\* The table index split_phonemes computes for each of the three slots.
split_index(l) ==
    LET offset == l[1] - FIRST_HANGUL_OFFSET
    IN  << offset \div (NUM_VOWELS * NUM_FINALS),
           (offset \div NUM_FINALS) % NUM_VOWELS,
           offset % NUM_FINALS >>

\* split_phonemes(letter, initial, vowel, final), for a letter it accepts.
split_phonemes(l, initial, vowel, final) ==
    LET ix == split_index(l)
    IN  << IF initial THEN INITIALS[ix[1] + 1] ELSE None,
           IF vowel THEN VOWELS[ix[2] + 1] ELSE None,
           IF final THEN FINALS[ix[3] + 1] ELSE None >>

\* join_phonemes(*args): the normalised (initial, vowel, final), when the
\* argument count allows one.
join_args(args) ==
    LET a1 == IF Len(args) = 1 THEN args[1] ELSE args
    IN  IF Len(a1) = 2 THEN a1 \o <<None>> ELSE a1

join_raises(args) ==
    LET a == join_args(args)
    IN  IF Len(a) # 3 THEN "TypeError"
        ELSE IF ~Has(INITIALS, a[1]) \/ ~Has(VOWELS, a[2]) \/ ~Has(FINALS, a[3])
             THEN "ValueError"
        ELSE ""

join_phonemes(args) ==
    LET a == join_args(args)
        offset == (IndexOf(INITIALS, a[1]) * NUM_VOWELS + IndexOf(VOWELS, a[2]))
                  * NUM_FINALS + IndexOf(FINALS, a[3])
    IN  <<FIRST_HANGUL_OFFSET + offset>>

----------------------------------------------------------------------------
(* particles.py: the coda of a word                                        *)

\* pick_coda answering the empty coda, not None, for a letter that is not
\* Hangul.
pick_coda_empty_on_error(l) ==
    IF split_raises(l) THEN <<>> ELSE split_phonemes(l, FALSE, FALSE, TRUE)[3]

\* pick_coda(letter): only the final is asked of split_phonemes; a letter
\* that is not a Hangul letter (ValueError) has the coda None.
pick_coda(l) ==
    IF split_raises(l) THEN None ELSE split_phonemes(l, FALSE, FALSE, TRUE)[3]

IsDigit(c) == c \in 48..57
IsDigits(s) == s # <<>> /\ \A i \in 1..Len(s) : IsDigit(s[i])

\* The text DECIMAL_PATTERN accepts as a whole: [0-9]+(\.[0-9]+)?
IsDecimalText(s) ==
    \/ IsDigits(s)
    \/ \E k \in 1..Len(s) :
          s[k] = 46 /\ IsDigits(Upto(s, k - 1)) /\ IsDigits(From(s, k))

\* The text before the place where "$" matches: the end of the word, or just
\* before a line break that ends it.
dollar_texts(s) ==
    {s} \cup (IF s # <<>> /\ s[Len(s)] = 10 THEN {Upto(s, Len(s) - 1)} ELSE {})

\* DECIMAL_PATTERN.search(word).group(0): the leftmost match, None when
\* there is none.
decimal_search(w) ==
    LET starts == { i \in 0..(Len(w) - 1) :
                      \E t \in dollar_texts(From(w, i)) : IsDecimalText(t) }
        start == CHOOSE i \in starts : \A j \in starts : i <= j
    IN  IF starts = {} THEN None
        ELSE CHOOSE t \in dollar_texts(From(w, start)) : IsDecimalText(t)

\* 영일이삼사오육칠팔구
DIGITS == <<50689, 51068, 51060, 49340, 49324, 50724, 50977, 52832, 54036, 44396>>

EXPS == <<
    <<1, <<49901>>>>,                        \* 십
    <<2, <<48177>>>>,                        \* 백
    <<3, <<52380>>>>,                        \* 천
    <<4, <<47564>>>>,                        \* 만
    <<8, <<50613>>>>,                        \* 억
    <<12, <<51312>>>>,                       \* 조
    <<16, <<44221>>>>,                       \* 경
    <<20, <<54644>>>>,                       \* 해
    <<24, <<51088>>>>,                       \* 자
    <<28, <<50577>>>>,                       \* 양
    <<32, <<44396>>>>,                       \* 구
    <<36, <<44036>>>>,                       \* 간
    <<40, <<51221>>>>,                       \* 정
    <<44, <<51116>>>>,                       \* 재
    <<48, <<44537>>>>,                       \* 극
    <<52, <<54637, 54616, 49324>>>>,         \* 항하사
    <<56, <<50500, 49849, 44592>>>>,         \* 아승기
    <<60, <<45208, 50976, 53440>>>>,         \* 나유타
    <<64, <<48520, 44032, 49324, 51032>>>>,  \* 불가사의
    <<68, <<47924, 47049, 45824, 49688>>>>,  \* 무량대수
    <<72, <<44161>>>>,                       \* 겁
    <<76, <<50629>>>> >>                     \* 업

\* DIGIT_CODAS[d], d in 0..9
DIGIT_CODAS(d) == pick_coda(<<DIGITS[d + 1]>>)

\* The first unreadable exponent: max(EXP_INDICES) + 4
unreadable_exp == EXPS[Len(EXPS)][1] + 4

\* EXP_INDICES, sorted, with the unreadable exponent appended.
EXP_INDICES == [i \in 1..(Len(EXPS) + 1) |->
                   IF i <= Len(EXPS) THEN EXPS[i][1] ELSE unreadable_exp]

\* EXP_CODAS[EXP_INDICES[index]], index 0-based
EXP_CODAS(index) ==
    IF index + 1 > Len(EXPS) THEN None
    ELSE LET name == EXPS[index + 1][2] IN pick_coda(<<name[Len(name)]>>)

\* bisect_right(a, x) for a sorted a: the number of elements <= x
bisect_right(a, x) == Cardinality({ i \in 1..Len(a) : a[i] <= x })

\* The precision of the decimal context normalize() rounds to.
DECIMAL_PREC == 28

RECURSIVE StripLeadingZeros(_)
StripLeadingZeros(d) ==
    IF Len(d) > 1 /\ d[1] = 0 THEN StripLeadingZeros(Tail(d)) ELSE d

\* Decimal(text).as_tuple(): <<digits, exp>>
decimal_tuple(text) ==
    LET point == IF \E k \in 1..Len(text) : text[k] = 46
                 THEN CHOOSE k \in 1..Len(text) : text[k] = 46 ELSE 0
        all == IF point = 0 THEN text ELSE Upto(text, point - 1) \o From(text, point)
    IN  << StripLeadingZeros([i \in 1..Len(all) |-> all[i] - 48]),
           IF point = 0 THEN 0 ELSE -(Len(text) - point) >>

\* The digits d plus one, with the carry.
RECURSIVE Increment(_)
Increment(d) ==
    IF d = <<>> THEN <<1>>
    ELSE IF d[Len(d)] < 9 THEN Upto(d, Len(d) - 1) \o <<d[Len(d)] + 1>>
    ELSE Increment(Upto(d, Len(d) - 1)) \o <<0>>

\* Rounding of an integer coefficient to DECIMAL_PREC digits, half to even.
decimal_round(d, exp) ==
    IF Len(d) <= DECIMAL_PREC THEN <<d, exp>>
    ELSE LET kept == Upto(d, DECIMAL_PREC)
             rest == From(d, DECIMAL_PREC)
             tailNonZero == \E i \in 2..Len(rest) : rest[i] # 0
             up == \/ rest[1] > 5
                   \/ rest[1] = 5 /\ tailNonZero
                   \/ rest[1] = 5 /\ ~tailNonZero /\ kept[Len(kept)] % 2 = 1
             r == IF up THEN Increment(kept) ELSE kept
             e == exp + Len(rest)
         IN  IF Len(r) > DECIMAL_PREC THEN <<Upto(r, DECIMAL_PREC), e + 1>>
             ELSE <<r, e>>

RECURSIVE StripTrailingZeros(_, _)
StripTrailingZeros(d, exp) ==
    IF Len(d) > 1 /\ d[Len(d)] = 0
    THEN StripTrailingZeros(Upto(d, Len(d) - 1), exp + 1)
    ELSE <<d, exp>>

\* decimal.normalize().as_tuple() for a coefficient with exp >= 0
decimal_normalize(d, exp) ==
    IF d = <<0>> THEN <<d, 0>>
    ELSE LET r == decimal_round(d, exp) IN StripTrailingZeros(r[1], r[2])

pick_coda_from_decimal(text) ==
    LET t == decimal_tuple(text)
    IN  IF t[2] < 0 THEN DIGIT_CODAS(t[1][Len(t[1])])
        ELSE LET n == decimal_normalize(t[1], t[2])
                 index == bisect_right(EXP_INDICES, n[2]) - 1
             IN  IF index < 0 THEN DIGIT_CODAS(n[1][Len(n[1])])
                 ELSE EXP_CODAS(index)

\* unicodedata.category(l) of the characters of the model's alphabets, as
\* <<major, minor>>.
Category(c) ==
    CASE c \in 48..57 -> <<"N", "d">>
      [] c \in 65..90 -> <<"L", "u">>
      [] c \in 97..122 -> <<"L", "l">>
      [] c \in {33, 44, 46, 63} -> <<"P", "o">>     \* ! , . ?
      [] c = 95 -> <<"P", "c">>                     \* _
      [] c = 45 -> <<"P", "d">>                     \* -
      [] c \in {40, 12298} -> <<"P", "s">>          \* ( 《
      [] c \in {41, 12299} -> <<"P", "e">>          \* ) 》
      [] c = 94 -> <<"S", "k">>                     \* ^
      [] c = 126 -> <<"S", "m">>                    \* ~
      [] c = 32 -> <<"Z", "s">>                     \* space
      [] c = 57344 -> <<"C", "o">>                  \* private use
      [] c \in 12593..12643 -> <<"L", "o">>         \* Hangul compatibility jamo
      [] c \in FIRST_HANGUL_OFFSET..LAST_HANGUL -> <<"L", "o">>
      [] OTHER -> <<"C", "c">>

\* INSIGNIFICANT_UNICODE_CATEGORY_PATTERN: ^([PZ].|Sk)$
insignificant_category(cat) ==
    cat[1] \in {"P", "Z"} \/ cat = <<"S", "k">>

\* INSIGNIFICANT_PARENTHESIS_PATTERN.search(w), w ending in ")": \(.*?\)$
\* The search goes left to right, so the match starts at the leftmost "("
\* from which no line break (which "." does not match) lies before the end;
\* -1 when there is none.
parenthesis_search(w) ==
    LET starts == { i \in 0..(Len(w) - 2) :
                      /\ w[i + 1] = 40
                      /\ \A j \in (i + 2)..(Len(w) - 1) : w[j] # 10 }
    IN  IF starts = {} THEN -1
        ELSE CHOOSE i \in starts : \A j \in starts : i <= j

\* The while loop of pick_significant, entered with x; the value of x it ends with.
RECURSIVE significant_loop(_, _)
significant_loop(w, x) ==
    IF ~(x > 0) THEN x
    ELSE LET y == x - 1
             l == w[y + 1]
         IN  IF l = 41
             THEN LET m == parenthesis_search(Upto(w, y + 1))
                  IN  significant_loop(w, IF m # -1 THEN m ELSE y)
             ELSE IF insignificant_category(Category(l))
                  THEN significant_loop(w, y)
                  ELSE y

pick_significant(w) ==
    IF w = <<>> THEN w ELSE Upto(w, significant_loop(w, Len(w)) + 1)

\* The coda Particle.__call__ infers for a word.
call_coda(w) ==
    LET s == pick_significant(w)
        m == decimal_search(s)
    IN  IF m # None THEN pick_coda_from_decimal(m)
        ELSE IF s # <<>> THEN pick_coda(<<s[Len(s)]>>) ELSE None

----------------------------------------------------------------------------
(* particles.py: particles and their allomorphs                            *)

Paren(s) == <<40>> \o s \o <<41>>

\* combine_tolerances(form1, form2), the strings it yields, in order.
combine_tolerances(form1, form2) ==
    IF form1 = <<>> \/ form2 = <<>>
    THEN << Paren(IF form1 # <<>> THEN form1 ELSE form2) >>
    ELSE LET len1 == Len(form1)
             len2 == Len(form2)
             longer == IF len1 > len2 THEN form1 ELSE form2
             shorter == IF len1 > len2 THEN form2 ELSE form1
         IN  IF len1 # len2 /\ EndsWith(longer, shorter)
             THEN << Paren(Upto(longer, Len(longer) - Len(shorter))) \o shorter >>
             ELSE << form1 \o Paren(form2), Paren(form1) \o form2,
                     form2 \o Paren(form1), Paren(form2) \o form1 >>

\* tolerance.py: generate_tolerances with the bracketed forms of one order
\* yielded after the plain-first forms of both orders.
generate_tolerances_by_bracket(form1, form2) ==
    IF form1 = form2 THEN <<>>
    ELSE IF form1 = <<>> \/ form2 = <<>>
    THEN << Paren(IF form1 # <<>> THEN form1 ELSE form2) >>
    ELSE LET len1 == Len(form1)
             len2 == Len(form2)
             longer == IF len1 > len2 THEN form1 ELSE form2
             shorter == IF len1 > len2 THEN form2 ELSE form1
         IN  IF len1 # len2 /\ EndsWith(longer, shorter)
             THEN << Paren(Upto(longer, Len(longer) - Len(shorter))) \o shorter >>
             ELSE << form1 \o Paren(form2), form2 \o Paren(form1),
                     Paren(form1) \o form2, Paren(form2) \o form1 >>

\* tolerance.py: generate_tolerances(form1, form2), the strings it yields,
\* in order.
generate_tolerances(form1, form2) ==
    IF form1 = form2 THEN <<>>
    ELSE IF form1 = <<>> \/ form2 = <<>>
    THEN << Paren(IF form1 # <<>> THEN form1 ELSE form2) >>
    ELSE LET len1 == Len(form1)
             len2 == Len(form2)
             longer == IF len1 > len2 THEN form1 ELSE form2
             shorter == IF len1 > len2 THEN form2 ELSE form1
         IN  IF len1 # len2 /\ EndsWith(longer, shorter)
             THEN << Paren(Upto(longer, Len(longer) - Len(shorter))) \o shorter >>
             ELSE << form1 \o Paren(form2), Paren(form1) \o form2,
                     form2 \o Paren(form1), Paren(form2) \o form1 >>

\* Particle.tolerances()
tolerances(p) == combine_tolerances(p.form1, p.form2)

\* Particle.tolerance: the representative tolerant form, the first yielded.
tolerance(p) == tolerances(p)[1]

\* Particle.allomorph with the test of the coda being "if coda is not None":
\* the empty coda takes form1 as well.
ParticleAllomorph_truthy_empty(p, c) ==
    IF c = None THEN tolerance(p) ELSE p.form1

\* Particle.allomorph(coda): the general rule.
ParticleAllomorph(p, c) ==
    IF c = None THEN tolerance(p)
    ELSE IF c # <<>> THEN p.form1
    ELSE p.form2

\* 으, 로, 이 and the phonemes the special particles test.
EU == <<51004>>
RO == <<47196>>
I == <<51060>>
RIEUL == <<12601>>
IEUNG == <<12615>>
VOWEL_I == <<12643>>

EuroParticle == [form1 |-> EU, form2 |-> <<>>, final |-> FALSE, kind |-> "Euro"]
IdaParticle == [form1 |-> I, form2 |-> <<>>, final |-> FALSE, kind |-> "Ida"]

\* Euro.PREFIX_PATTERN.match(form): ^(으|\(으\))?로 ; the end of group 1, -1
\* when the group took no part, -2 when the pattern does not match.
euro_prefix_end(form) ==
    IF StartsWith(form, EU \o RO) THEN 1
    ELSE IF StartsWith(form, Paren(EU) \o RO) THEN 3
    ELSE IF StartsWith(form, RO) THEN -1
    ELSE -2

\* Euro.allomorph without the exception for the coda "ㄹ".
EuroAllomorph_plain_rieul(c, form) ==
    LET e == euro_prefix_end(form)
        suffix == From(form, IF e > 0 THEN e ELSE 0)
        prefix == IF c = None THEN tolerance(EuroParticle)
                  ELSE IF c # <<>> THEN EuroParticle.form1
                  ELSE EuroParticle.form2
    IN  IF e = -2 THEN None ELSE prefix \o suffix

\* Euro.allomorph with every coda eliding "으" as "ㄹ" does.
EuroAllomorph_elide_all(c, form) ==
    LET e == euro_prefix_end(form)
        suffix == From(form, IF e > 0 THEN e ELSE 0)
        prefix == IF c = None THEN tolerance(EuroParticle)
                  ELSE EuroParticle.form2
    IN  IF e = -2 THEN None ELSE prefix \o suffix

\* Euro.allomorph(coda, form); None when the form is not handled.
EuroAllomorph(c, form) ==
    LET e == euro_prefix_end(form)
        suffix == From(form, IF e > 0 THEN e ELSE 0)
        prefix == IF c = None THEN tolerance(EuroParticle)
                  ELSE IF c # <<>> /\ c # RIEUL THEN EuroParticle.form1
                  ELSE EuroParticle.form2
    IN  IF e = -2 THEN None ELSE prefix \o suffix

\* I_PATTERN.sub with the pattern ^이 alone: a bracketed (이) stays.
i_sub_leading_only(form, atStart) ==
    IF atStart /\ StartsWith(form, I) THEN Tail(form) ELSE form

\* Ida.I_PATTERN.sub(u'', form): ^이|\(이\) ; a leading "이" and every "(이)"
\* are removed, scanning from the left.
RECURSIVE i_sub(_, _)
i_sub(form, atStart) ==
    IF form = <<>> THEN <<>>
    ELSE IF atStart /\ StartsWith(form, I) THEN i_sub(Tail(form), FALSE)
    ELSE IF StartsWith(form, Paren(I)) THEN i_sub(From(form, 3), FALSE)
    ELSE <<form[1]>> \o i_sub(Tail(form), FALSE)

\* Ida.J_INJECTIONS and its inverse
J_INJECTIONS == << << <<12627>>, <<12629>> >>, << <<12628>>, <<12630>> >> >>
j_injected(v) == IF v = J_INJECTIONS[1][1] THEN J_INJECTIONS[1][2] ELSE J_INJECTIONS[2][2]
j_plain(v) == IF v = J_INJECTIONS[1][2] THEN J_INJECTIONS[1][1] ELSE J_INJECTIONS[2][1]
in_j_injections(v) == v = J_INJECTIONS[1][1] \/ v = J_INJECTIONS[2][1]
in_j_injections_inv(v) == v = J_INJECTIONS[1][2] \/ v = J_INJECTIONS[2][2]

\* The exception Ida.allomorph raises, "" when it returns.
ida_raises(c, form) ==
    LET suffix == i_sub(form, TRUE)
    IN  IF suffix = <<>> THEN "IndexError"
        ELSE IF split_raises(<<suffix[1]>>) THEN "ValueError"
        ELSE ""

\* Ida.allomorph without the inverse mapping: "여" and "예" are never
\* lengthened after a consonant.
ida_suffix_no_inverse(c, form) ==
    LET suffix == i_sub(form, TRUE)
        next == split_phonemes(<<suffix[1]>>, TRUE, TRUE, TRUE)
        mapped == IF c = <<>> /\ in_j_injections(next[2]) THEN j_injected(next[2])
                  ELSE None
    IN  IF next[1] = IEUNG /\ next[2] # VOWEL_I /\ mapped # None
        THEN join_phonemes(<<IEUNG, mapped, next[3]>>) \o Tail(suffix)
        ELSE suffix

\* The suffix Ida.allomorph is left with after the /j/ mapping.
ida_suffix(c, form) ==
    LET suffix == i_sub(form, TRUE)
        next == split_phonemes(<<suffix[1]>>, TRUE, TRUE, TRUE)
        mapped == IF c = <<>> /\ in_j_injections(next[2]) THEN j_injected(next[2])
                  ELSE IF c # <<>> /\ in_j_injections_inv(next[2]) THEN j_plain(next[2])
                  ELSE None
    IN  IF next[1] = IEUNG /\ next[2] # VOWEL_I /\ mapped # None
        THEN join_phonemes(<<IEUNG, mapped, next[3]>>) \o Tail(suffix)
        ELSE suffix

\* Ida.allomorph without the early return for a suffix that starts with 이:
\* the form of the coda is put before every suffix.
IdaAllomorph_always_prefixed(c, form) ==
    ParticleAllomorph(IdaParticle, c) \o ida_suffix(c, form)

\* Ida.allomorph(coda, form), when it does not raise.
IdaAllomorph(c, form) ==
    LET suffix == i_sub(form, TRUE)
        next == split_phonemes(<<suffix[1]>>, TRUE, TRUE, TRUE)
    IN  IF next[1] = IEUNG /\ next[2] = VOWEL_I THEN suffix
        ELSE ParticleAllomorph(IdaParticle, c) \o ida_suffix(c, form)

----------------------------------------------------------------------------
(* __init__.py: the catalogue and the lookup                               *)

Regular(f1, f2, fin) == [form1 |-> f1, form2 |-> f2, final |-> fin, kind |-> "Particle"]
\* Particle(form1, final=...): form2 defaults to form1.
Invariant(f1, fin) == Regular(f1, f1, fin)

PARTICLES == <<
    Regular(<<51060>>, <<44032>>, TRUE),                       \* 이 가
    Regular(<<51012>>, <<47484>>, TRUE),                       \* 을 를
    Regular(<<51008>>, <<45716>>, FALSE),                      \* 은 는
    Regular(<<44284>>, <<50752>>, FALSE),                      \* 과 와
    Regular(<<50500>>, <<50556>>, TRUE),                       \* 아 야
    Regular(<<51060, 50668>>, <<50668>>, TRUE),                \* 이여 여
    Regular(<<51060, 49884, 50668>>, <<49884, 50668>>, TRUE),  \* 이시여 시여
    Invariant(<<51032>>, TRUE),                                \* 의
    Invariant(<<46020>>, TRUE),                                \* 도
    Invariant(<<47564>>, FALSE),                               \* 만
    Invariant(<<50640>>, FALSE),                               \* 에
    Invariant(<<44760>>, FALSE),                               \* 께
    Invariant(<<49104>>, FALSE),                               \* 뿐
    Invariant(<<54616>>, FALSE),                               \* 하
    Invariant(<<48372, 45796>>, FALSE),                        \* 보다
    Invariant(<<48150, 50640>>, FALSE),                        \* 밖에
    Invariant(<<44057, 51060>>, FALSE),                        \* 같이
    Invariant(<<48512, 53552>>, FALSE),                        \* 부터
    Invariant(<<44620, 51648>>, FALSE),                        \* 까지
    Invariant(<<47560, 51200>>, FALSE),                        \* 마저
    Invariant(<<51312, 52264>>, FALSE),                        \* 조차
    Invariant(<<47560, 45285>>, FALSE),                        \* 마냥
    Invariant(<<52376, 47100>>, FALSE),                        \* 처럼
    Invariant(<<52964, 45397>>, FALSE),                        \* 커녕
    EuroParticle >>

\* A particle is named by its place in PARTICLES; Ida, which is not in the
\* catalogue, by the place after the last.
EuroId == Len(PARTICLES)
IdaId == Len(PARTICLES) + 1

\* Particle.__iter__: form1, form2 and the tolerances.
forms(p) == <<p.form1, p.form2>> \o tolerances(p)

\* One form against the start of a request: the remainder, None when the form
\* does not match.  A form that ends in a syllable without coda also matches
\* that syllable with a coda added, and the coda then heads the remainder
\* (관 = 과 + ㄴ); a final particle matches the whole request only.
form_match(f, s, final) ==
    LET n == Len(f)
    IN  IF n = 0 \/ Len(s) < n THEN None
        ELSE IF ~ \A i \in 1..(n - 1) : s[i] = f[i] THEN None
        ELSE IF s[n] = f[n]
             THEN IF final /\ Len(s) > n THEN None ELSE From(s, n)
        ELSE IF /\ ~final
                /\ s[n] - f[n] \in 1..(NUM_FINALS - 1)
                /\ is_hangul(<<f[n]>>) /\ is_hangul(<<s[n]>>)
                /\ split_index(<<f[n]>>)[3] = 0
             THEN FINALS[s[n] - f[n] + 1] \o From(s, n)
        ELSE None

\* The forms of a particle, longest first (forms of one length keep their order).
RECURSIVE longest_first(_, _)
longest_first(fs, n) ==
    IF n < 0 THEN <<>>
    ELSE SelectSeq(fs, LAMBDA f : Len(f) = n) \o longest_first(fs, n - 1)

MaxLen(fs) == CHOOSE n \in { Len(fs[i]) : i \in 1..Len(fs) } :
                  \A i \in 1..Len(fs) : Len(fs[i]) <= n

\* patterns: what the particles are indexed by when the module is loaded, one
\* entry per particle of PARTICLES: its forms, longest first.
patterns ==
    [id \in 1..Len(PARTICLES) |->
        LET fs == forms(PARTICLES[id]) IN longest_first(fs, MaxLen(fs))]

\* The remainder of the first form of fs, from the k-th on, that matches.
RECURSIVE first_form_match(_, _, _, _)
first_form_match(fs, k, s, final) ==
    IF k > Len(fs) THEN None
    ELSE LET m == form_match(fs[k], s, final)
         IN  IF m # None THEN m ELSE first_form_match(fs, k + 1, s, final)

\* Particle.match(request) of catalogue particle id: the forms are tried
\* longest first; the remainder of the first that matches, None when none does.
particle_match(id, s) == first_form_match(patterns[id], 1, s, PARTICLES[id].final)

\* Whether the pattern of catalogue particle id matches a request.
pattern_matches(id, s) ==
    IF PARTICLES[id].kind = "Euro" THEN euro_prefix_end(s) # -2
    ELSE particle_match(id, s) # None

\* The orders of the catalogue the lookup is examined under: PARTICLES as it
\* is written (0), reversed (1), and rotated by k - 1 places (k >= 2).
CatalogueOrder(k) ==
    LET n == Len(PARTICLES)
    IN  [i \in 1..n |-> IF k = 0 THEN i
                        ELSE IF k = 1 THEN n + 1 - i
                        ELSE ((i - 1 + (k - 1)) % n) + 1]

\* The first particle of the order, from place i on, whose pattern matches.
RECURSIVE first_match(_, _, _)
first_match(order, i, s) ==
    IF i > Len(order) THEN 0
    ELSE IF pattern_matches(order[i], s) THEN order[i]
    ELSE first_match(order, i + 1, s)

\* _particle_pattern.match(option): an alternation of one named group per
\* particle, in the order of the catalogue; the regex engine takes the first
\* alternative that matches.  The particle of m.lastgroup, Ida when m is None.
lookup(order, s) ==
    LET m == first_match(order, 1, s)
    IN  IF m = 0 THEN IdaId ELSE m

\* The implicit spec {:option} is declined unless every letter of the option
\* is Hangul or a parenthesis.
declines(isExplicit, s) ==
    /\ ~isExplicit
    /\ \/ s = <<>>
       \/ ~ \A i \in 1..Len(s) : is_hangul(<<s[i]>>) \/ s[i] \in {40, 41}

\* particle[word:option:style] for a word of coda c: the exception it raises,
\* "" when it returns.
select_raises(id, c, s) ==
    IF id = IdaId THEN ida_raises(c, s) ELSE ""

\* particle[word:option:style] for a word of coda c: the suffix.
select(id, c, s) ==
    IF id = IdaId THEN IdaAllomorph(c, s)
    ELSE IF id = EuroId THEN EuroAllomorph(c, s)
    ELSE ParticleAllomorph(PARTICLES[id], c) \o particle_match(id, s)

\* A tolerance style is an integer or a string: <<"int", n>>, <<"unicode", s>>.
IntStyle(n) == <<"int", n>>
StrStyle(s) == <<"unicode", s>>

\* The exception resolve_tolerance_style(style) raises, "" when it returns:
\* no particle matching leaves m None (m.lastgroup), a particle without four
\* tolerances is refused, and list.index refuses a string that is no
\* tolerance of the particle.
resolve_tolerance_style_raises(st) ==
    IF st[1] = "int" THEN ""
    ELSE LET m == first_match(CatalogueOrder(0), 1, st[2])
         IN  IF m = 0 THEN "AttributeError"
             ELSE IF Len(tolerances(PARTICLES[m])) # 4 THEN "ValueError"
             ELSE IF ~Has(tolerances(PARTICLES[m]), st[2]) THEN "ValueError"
             ELSE ""

\* resolve_tolerance_style answering the first style for every string.
resolve_tolerance_style_first(st) ==
    IF st[1] = "int" THEN st[2] ELSE 0

\* resolve_tolerance_style(style), when it does not raise.
resolve_tolerance_style(st) ==
    IF st[1] = "int" THEN st[2]
    ELSE LET m == first_match(CatalogueOrder(0), 1, st[2])
         IN  IndexOf(tolerances(PARTICLES[m]), st[2])

\* tolerance(style): the tolerant form of the style, the first when the
\* style is out of range.
tolerance_at(p, st) ==
    LET ts == tolerances(p)
    IN  IF st \in 0..(Len(ts) - 1) THEN ts[st + 1] ELSE ts[1]

\* particle[word:option:style] for a word of coda c and a tolerance style.
select_style(id, c, s, st) ==
    IF c = None /\ id \notin {EuroId, IdaId}
    THEN tolerance_at(PARTICLES[id], st) \o particle_match(id, s)
    ELSE select(id, c, s)

----------------------------------------------------------------------------
(* The phoneme codec applied to one letter                                 *)

\* Letters given to the codec: every Hangul syllable, and some that are not.
NonHangulLetters == { <<>>, <<88>>, <<12619>>, <<49453, 49453>>, <<44031>>, <<55204>> }
CodecLetters == { <<c>> : c \in FIRST_HANGUL_OFFSET..LAST_HANGUL } \cup NonHangulLetters

Idle == /\ word = <<>> /\ option = <<>> /\ style = 0 /\ explicit = TRUE
        /\ coda = None /\ particle = 0

\* No tolerance generated, the default extension object (tolerance style 0),
\* no _particle_index built, no thread.
Elsewhere ==
    /\ pair = <<>> /\ yielded = <<>>
    /\ tolerance_style = 0
    /\ catalogue = <<>> /\ particle_index = {} /\ cursor = <<>>
    /\ threads = <<>> /\ cache = <<>> /\ history = {}

InitCodec ==
    /\ pc = "start"
    /\ letter \in CodecLetters
    /\ phonemes = <<None, None, None>>
    /\ out = None
    /\ raised = ""
    /\ Idle
    /\ Elsewhere

Split ==
    /\ pc = "start"
    /\ pc' = "split"
    /\ IF split_raises(letter)
       THEN raised' = "ValueError" /\ phonemes' = phonemes
       ELSE raised' = "" /\ phonemes' = split_phonemes(letter, TRUE, TRUE, TRUE)
    /\ UNCHANGED <<letter, word, option, style, explicit, coda,
                   particle, out>>
    /\ UNCHANGED elsewhere

Join ==
    /\ pc = "split"
    /\ raised = ""
    /\ pc' = "joined"
    /\ raised' = join_raises(phonemes)
    /\ out' = IF join_raises(phonemes) = "" THEN join_phonemes(phonemes) ELSE None
    /\ UNCHANGED <<letter, phonemes, word, option, style, explicit,
                   coda, particle>>
    /\ UNCHANGED elsewhere

NextCodec == Split \/ Join

SpecCodec == InitCodec /\ [][NextCodec]_vars

----------------------------------------------------------------------------
(* The inputs of the particle operations                                   *)

\* All strings over a set of letters, of length lo to hi.
Strings(letters, lo, hi) == UNION { [1..n -> letters] : n \in lo..hi }

MaxStemLen == 2
MaxTrailLen == 1
MaxWordLen == 3
MaxOrder == 2

\* Every value a coda takes: None, the empty string, each consonant.
CodaValues == {None, <<>>} \cup { FINALS[i] : i \in 2..NUM_FINALS }

\* Requests made of an optional 이 (이) 으 (으) and a stem of the letters
\* 로 에 예 었 였 입 다 a
StemLetters == {47196, 50640, 50696, 50632, 50688, 51077, 45796, 97}
FormPrefixes == {<<>>, I, Paren(I), EU, Paren(EU)}
StemForms ==
    { pre \o stem : pre \in FormPrefixes, stem \in Strings(StemLetters, 0, MaxStemLen) }

\* Forms of the copula that start with 이 once the marker is removed:
\* 입니다, 인양, 이입니다, (이)입니다, 이이다
ExampleForms == { <<51077, 45768, 45796>>, <<51064, 50577>>,
                  <<51060, 51077, 45768, 45796>>,
                  <<40, 51060, 41, 51077, 45768, 45796>>,
                  <<51060, 51060, 45796>> }

\* The variables of one call of the codec, a particle or the extension,
\* apart from pc: what an operation outside such a call leaves alone.
callVars == <<letter, phonemes, word, option, style, explicit, coda,
              particle, out, raised>>

\* No call made.
Uncalled ==
    /\ letter = <<>> /\ phonemes = <<None, None, None>>
    /\ Idle
    /\ out = None /\ raised = ""

----------------------------------------------------------------------------
(* generate_tolerances applied to two forms                                *)

MaxFormLen == 2

\* Forms of the letters 이 가 여, and the pairs of the tests: 이시여 시여,
\* 으로 로
FormLetters == {51060, 44032, 50668}
FormPairs ==
    (Strings(FormLetters, 0, MaxFormLen) \X Strings(FormLetters, 0, MaxFormLen))
    \cup { << <<51060, 49884, 50668>>, <<49884, 50668>> >>,
           << <<51004, 47196>>, <<47196>> >> }

InitTolerance ==
    /\ pc = "start"
    /\ pair \in FormPairs
    /\ yielded = <<>>
    /\ Uncalled
    /\ tolerance_style = 0
    /\ catalogue = <<>> /\ particle_index = {} /\ cursor = <<>>
    /\ threads = <<>> /\ cache = <<>> /\ history = {}

\* list(generate_tolerances(form1, form2))
Generate ==
    /\ pc = "start"
    /\ pc' = "generated"
    /\ yielded' = generate_tolerances(pair[1], pair[2])
    /\ UNCHANGED <<callVars, pair, tolerance_style, catalogue, particle_index,
                   cursor, threads, cache, history>>

NextTolerance == Generate

SpecTolerance == InitTolerance /\ [][NextTolerance]_vars

----------------------------------------------------------------------------
(* pick_coda_from_decimal applied to the decimal a word ends with          *)

MaxDigits == 100
MaxHeadLen == 2

\* n times the letter c
Run(c, n) == [i \in 1..n |-> c]

\* The digits a decimal starts with: every string of up to MaxHeadLen
\* digits, and runs of 1, 5 or 9 of every length.
DecimalHeads ==
    Strings(48..57, 1, MaxHeadLen)
    \cup { Run(d, n) : d \in {49, 53, 57}, n \in (MaxHeadLen + 1)..MaxDigits }

\* Integers: a head and then zeros, of up to MaxDigits digits in all; and
\* the fractions 1.0, 3.14, 1.234567890 and 10.50
DecimalTexts ==
    { t \in { h \o Run(48, k) : h \in DecimalHeads, k \in 0..MaxDigits } :
        Len(t) <= MaxDigits }
    \cup { <<49, 46, 48>>, <<51, 46, 49, 52>>,
           <<49, 46, 50, 51, 52, 53, 54, 55, 56, 57, 48>>, <<49, 48, 46, 53, 48>> }

InitDecimal ==
    /\ pc = "start"
    /\ word \in DecimalTexts
    /\ letter = <<>> /\ phonemes = <<None, None, None>>
    /\ option = <<>> /\ style = 0 /\ explicit = TRUE
    /\ coda = None /\ particle = 0
    /\ out = None /\ raised = ""
    /\ Elsewhere

\* coda = pick_coda_from_decimal(decimal_match.group(0))
PickCodaFromDecimal ==
    /\ pc = "start"
    /\ pc' = "picked"
    /\ coda' = pick_coda_from_decimal(word)
    /\ UNCHANGED <<letter, phonemes, word, option, style, explicit,
                   particle, out, raised>>
    /\ UNCHANGED elsewhere

NextDecimal == PickCodaFromDecimal

SpecDecimal == InitDecimal /\ [][NextDecimal]_vars

----------------------------------------------------------------------------
(* allomorph(coda, ...) of each kind of particle, for a given coda         *)

InitAllomorph ==
    /\ pc = "start"
    /\ coda \in CodaValues
    /\ particle \in 1..IdaId
    /\ option \in (IF particle \in {EuroId, IdaId} THEN StemForms \cup ExampleForms
                   ELSE {<<>>})
    /\ style = 0
    /\ letter = <<>> /\ phonemes = <<None, None, None>>
    /\ word = <<>> /\ explicit = TRUE
    /\ out = None /\ raised = ""
    /\ Elsewhere

AllomorphParticle ==
    /\ pc = "start"
    /\ particle \notin {EuroId, IdaId}
    /\ pc' = "allomorph"
    /\ out' = ParticleAllomorph(PARTICLES[particle], coda)
    /\ UNCHANGED <<letter, phonemes, word, option, style, explicit,
                   coda, particle, raised>>
    /\ UNCHANGED elsewhere

AllomorphEuro ==
    /\ pc = "start"
    /\ particle = EuroId
    /\ pc' = "allomorph"
    /\ out' = EuroAllomorph(coda, option)
    /\ UNCHANGED <<letter, phonemes, word, option, style, explicit,
                   coda, particle, raised>>
    /\ UNCHANGED elsewhere

AllomorphIda ==
    /\ pc = "start"
    /\ particle = IdaId
    /\ pc' = "allomorph"
    /\ raised' = ida_raises(coda, option)
    /\ out' = IF ida_raises(coda, option) = "" THEN IdaAllomorph(coda, option)
              ELSE None
    /\ UNCHANGED <<letter, phonemes, word, option, style, explicit,
                   coda, particle>>
    /\ UNCHANGED elsewhere

NextAllomorph == AllomorphParticle \/ AllomorphEuro \/ AllomorphIda

SpecAllomorph == InitAllomorph /\ [][NextAllomorph]_vars

----------------------------------------------------------------------------
(* KoreanExtension.__call__: a word and a requested form to a suffix       *)

\* The letters of words: 오 (no coda), 홀 (ㄹ), 밖 (ㄲ), o, ㅋ, ?, (, ), 1, 0, .
WordLetters == {50724, 54848, 48150, 111, 12619, 63, 40, 41, 49, 48, 46}
\* 피카츄
ExampleWords == { <<54588, 52852, 52740>> }
\* Words ending in a parenthesis: 나오(Lv.25), 7(16)?!, 이상한괄호)(),
\* 남(홀), (홀(), 홀(오(x), 홀(?)오(x)
ParenthesisWords == {
    <<45208, 50724, 40, 76, 118, 46, 50, 53, 41>>,
    <<55, 40, 49, 54, 41, 63, 33>>,
    <<51060, 49345, 54620, 44292, 54840, 41, 40, 41>>,
    <<45224, 40, 54848, 41>>,
    <<40, 54848, 40, 41>>,
    <<54848, 40, 50724, 40, 120, 41>>,
    <<54848, 40, 63, 41, 50724, 40, 120, 41>> }
Words == Strings(WordLetters, 0, MaxWordLen) \cup ExampleWords
         \cup ParenthesisWords

\* The particles called with a word: 이/가, 을/를, 은/는, 이여/여, Euro, Ida
WordParticles == {1, 2, 3, 6, EuroId, IdaId}

\* The forms Euro and Ida are called with: 으로, (으)로, 로서;
\* 이에요, 예요, 였다, 다
WordForms(id) ==
    IF id = EuroId THEN { EU \o RO, Paren(EU) \o RO, RO \o <<49436>> }
    ELSE IF id = IdaId THEN { <<51060, 50640, 50836>>, <<50696, 50836>>,
                              <<50688, 45796>>, <<45796>> }
    ELSE { <<>> }

\* The words of the lookup: empty, 남 (ㅁ), 나 (no coda), 홀 (ㄹ), 사건 (ㄴ),
\* 그 친구, o
LookupWords == { <<>>, <<45224>>, <<45208>>, <<54848>>, <<49324, 44148>>,
                 <<44536, 32, 52828, 44396>>, <<111>> }

\* The text after a particle form: strings of 는 도 여 ( ㄴ, and 으로는, (는)도
TrailLetters == {45716, 46020, 50668, 40, 12596}
Trails == Strings(TrailLetters, 0, MaxTrailLen)
          \cup { EU \o RO \o <<45716>>, <<40, 45716, 41, 46020>> }

\* What a request names a particle by: one of its forms; for Euro, which
\* keeps only the 으 of 으로, the form and 로.
RequestForms ==
    [id \in 1..Len(PARTICLES) |->
        LET fs == forms(PARTICLES[id])
        IN  { IF id = EuroId THEN fs[i] \o RO ELSE fs[i] : i \in 1..Len(fs) }]

\* 관, 완, 한, 엔, 론, 으론: a form whose last syllable took a coda
FusedRequests == { <<44288>>, <<50756>>, <<54620>>, <<50644>>, <<47200>>,
                   EU \o <<47200>> }

LookupRequests ==
    { f \o t : f \in UNION { RequestForms[id] : id \in 1..Len(PARTICLES) },
               t \in Trails }
    \cup { f \o t : f \in FusedRequests, t \in Trails }
    \cup StemForms

InitCall ==
    /\ pc = "start"
    /\ letter = <<>> /\ phonemes = <<None, None, None>>
    /\ coda = None
    /\ out = None /\ raised = ""
    /\ Elsewhere

\* Many words, a few particles.
InitWord ==
    /\ InitCall
    /\ word \in Words
    /\ particle \in WordParticles
    /\ option \in WordForms(particle)
    /\ style = 0
    /\ explicit = TRUE

\* Particle.__call__(word, form): the coda of the word is inferred and given
\* to the allomorph of the particle.
ParticleCall ==
    /\ pc = "start"
    /\ \E c \in {call_coda(word)} :
       \E exc \in {IF particle = IdaId THEN ida_raises(c, option) ELSE ""} :
           /\ pc' = "called"
           /\ coda' = c
           /\ raised' = exc
           /\ out' = IF exc # "" THEN None
                     ELSE IF particle = IdaId THEN IdaAllomorph(c, option)
                     ELSE IF particle = EuroId THEN EuroAllomorph(c, option)
                     ELSE ParticleAllomorph(PARTICLES[particle], c)
    /\ UNCHANGED <<letter, phonemes, word, option, style, explicit,
                   particle>>
    /\ UNCHANGED elsewhere

NextWord == ParticleCall

SpecWord == InitWord /\ [][NextWord]_vars

\* Many requests, a few words.
InitLookup ==
    /\ InitCall
    /\ word \in LookupWords
    /\ option \in LookupRequests
    /\ particle = 0
    /\ style = 0
    /\ explicit \in BOOLEAN

\* KoreanExtension.__call__: an implicit spec whose option is not all Hangul
\* and parentheses is declined (None is returned); otherwise the particle is
\* looked up and applied to the word.
Call ==
    /\ pc = "start"
    /\ IF declines(explicit, option)
       THEN /\ pc' = "declined"
            /\ UNCHANGED <<coda, particle, out, raised>>
       ELSE \E id \in {lookup(CatalogueOrder(0), option)} :
            \E c \in {call_coda(word)} :
            \E exc \in {select_raises(id, c, option)} :
                /\ pc' = "resolved"
                /\ particle' = id
                /\ coda' = c
                /\ raised' = exc
                /\ out' = IF exc = "" THEN select(id, c, option) ELSE None
    /\ UNCHANGED <<letter, phonemes, word, option, style, explicit>>
    /\ UNCHANGED elsewhere

NextCall == Call

SpecLookup == InitLookup /\ [][NextCall]_vars

----------------------------------------------------------------------------
(* KoreanExtension(tolerance_style) and its calls                          *)

\* The styles an extension is made with: 0..3; every form of every particle
\* of the catalogue; 은(는)도, (이)여도; nothing, abc, 다
StyleInputs ==
    { IntStyle(n) : n \in 0..3 }
    \cup { StrStyle(f) : f \in UNION { RequestForms[id] : id \in 1..Len(PARTICLES) } }
    \cup { StrStyle(f) : f \in { <<51008, 40, 45716, 41, 46020>>,
                                 <<40, 51060, 41, 50668, 46020>>,
                                 <<>>, <<97, 98, 99>>, <<45796>> } }

\* Hello, World, Bye, nothing, 남, 나
StyleWords == { <<72, 101, 108, 108, 111>>, <<87, 111, 114, 108, 100>>,
                <<66, 121, 101>>, <<>>, <<45224>>, <<45208>> }

\* 은, 을, 다, 도, 여, 으로, 과는, 만으로
StyleOptions == { <<51008>>, <<51012>>, <<45796>>, <<46020>>, <<50668>>,
                  <<51004, 47196>>, <<44284, 45716>>, <<47564, 51004, 47196>> }

InitStyle ==
    /\ InitCall
    /\ style \in StyleInputs
    /\ word \in StyleWords
    /\ option \in StyleOptions
    /\ particle = 0
    /\ explicit = TRUE

\* KoreanExtension.__init__: self.tolerance_style = resolve_tolerance_style(style)
Configure ==
    /\ pc = "start"
    /\ \E exc \in {resolve_tolerance_style_raises(style)} :
           /\ raised' = exc
           /\ pc' = IF exc = "" THEN "configured" ELSE "failed"
           /\ tolerance_style' = IF exc = "" THEN resolve_tolerance_style(style)
                                  ELSE tolerance_style
    /\ UNCHANGED <<letter, phonemes, word, option, style, explicit, coda,
                   particle, out>>
    /\ UNCHANGED <<pair, yielded, catalogue, particle_index, cursor, threads,
                   cache, history>>

\* KoreanExtension.__call__ of an extension made with a style: the particle
\* is looked up and applied to the word with self.tolerance_style.
StyledCall ==
    /\ pc = "configured"
    /\ IF declines(explicit, option)
       THEN /\ pc' = "declined"
            /\ UNCHANGED <<coda, particle, out, raised>>
       ELSE \E id \in {lookup(CatalogueOrder(0), option)} :
            \E c \in {call_coda(word)} :
            \E exc \in {select_raises(id, c, option)} :
                /\ pc' = "resolved"
                /\ particle' = id
                /\ coda' = c
                /\ raised' = exc
                /\ out' = IF exc = "" THEN select_style(id, c, option, tolerance_style)
                          ELSE None
    /\ UNCHANGED <<letter, phonemes, word, option, style, explicit>>
    /\ UNCHANGED elsewhere

NextStyle == Configure \/ StyledCall

SpecStyle == InitStyle /\ [][NextStyle]_vars

----------------------------------------------------------------------------
(* smartformatkorean.py: the index of the particles by their forms         *)

\* combine_forms(form1, form2)
combine_forms(form1, form2) == form1 \o Paren(form2)

\* Particle(form1, form2, default=None) of smartformatkorean.py
IndexParticle(form1, form2, default) ==
    [form1 |-> form1, form2 |-> form2,
     default |-> IF default = None THEN combine_forms(form1, form2) ELSE default]

\* PARTICLES of smartformatkorean.py
PARTICLES_smartformatkorean == <<
    IndexParticle(<<51008>>, <<45716>>, None),                     \* 은 는
    IndexParticle(<<51060>>, <<44032>>, None),                     \* 이 가
    IndexParticle(<<51012>>, <<47484>>, None),                     \* 을 를
    IndexParticle(<<44284>>, <<50752>>, None),                     \* 과 와
    IndexParticle(<<50500>>, <<50556>>, None),                     \* 아 야
    IndexParticle(<<51060, 50668>>, <<50668>>,
                  <<40, 51060, 41, 50668>>),                       \* 이여 여 (이)여
    IndexParticle(<<51060, 49884, 50668>>, <<49884, 50668>>,
                  <<40, 51060, 41, 49884, 50668>>),                \* 이시여 시여
    IndexParticle(<<51004, 47196>>, <<47196>>,
                  <<40, 51004, 41, 47196>>) >>                     \* Euro

\* Particle.__iter__ of smartformatkorean.py: default, form1, form2
index_forms(p) == <<p.default, p.form1, p.form2>>

\* "form in _particle_index" never being true: a form already there is
\* overwritten.
index_has_never(index, form) == FALSE

\* form in _particle_index
index_has(index, form) == \E e \in index : e[1] = form

\* _particle_index[form] = p, the particle named by its place in the list
index_put(index, form, p) == { e \in index : e[1] # form } \cup { <<form, p>> }

MaxCatalogue == 2

\* The particles catalogues are made of: every pair of forms of 은 는 이
PoolLetters == {51008, 45716, 51060}
ParticlePool == { IndexParticle(<<a>>, <<b>>, None) : a \in PoolLetters, b \in PoolLetters }

\* The catalogues an index is built from: the PARTICLES of the module, and
\* every list of up to MaxCatalogue particles of the pool.
Catalogues ==
    { PARTICLES_smartformatkorean }
    \cup UNION { [1..n -> ParticlePool] : n \in 0..MaxCatalogue }

InitIndex ==
    /\ pc = "start"
    /\ catalogue \in Catalogues
    /\ particle_index = {}
    /\ cursor = <<1, 1>>
    /\ Uncalled
    /\ pair = <<>> /\ yielded = <<>> /\ tolerance_style = 0
    /\ threads = <<>> /\ cache = <<>> /\ history = {}

\* One turn of the loops "for p in PARTICLES: for form in p": the form is
\* refused with KeyError when it is in the index already, and entered for
\* the particle otherwise; the loops end after the last form of the last
\* particle.
IndexForm ==
    /\ pc \in {"start", "indexing"}
    /\ IF cursor[1] > Len(catalogue)
       THEN /\ pc' = "indexed"
            /\ UNCHANGED <<particle_index, cursor, raised>>
       ELSE LET p == catalogue[cursor[1]]
                form == index_forms(p)[cursor[2]]
            IN  IF index_has(particle_index, form)
                THEN /\ pc' = "failed"
                     /\ raised' = "KeyError"
                     /\ UNCHANGED <<particle_index, cursor>>
                ELSE /\ pc' = "indexing"
                     /\ particle_index' = index_put(particle_index, form, cursor[1])
                     /\ cursor' = IF cursor[2] < Len(index_forms(p))
                                  THEN <<cursor[1], cursor[2] + 1>>
                                  ELSE <<cursor[1] + 1, 1>>
                     /\ raised' = raised
    /\ UNCHANGED <<letter, phonemes, word, option, style, explicit, coda,
                   particle, out>>
    /\ UNCHANGED <<pair, yielded, tolerance_style, catalogue, threads, cache,
                   history>>

NextIndex == IndexForm

SpecIndex == InitIndex /\ [][NextIndex]_vars

----------------------------------------------------------------------------
(* Calls of several threads, and the _tolerance slot of a particle         *)

MaxThreads == 2
MaxCalls == 3

\* _particles of __init__.py: group x names the particle at place x
_particles == { <<x, x>> : x \in 1..Len(PARTICLES) }

\* The _tolerance slot as one attribute of the class, shared by every
\* particle.
tolerance_slot_shared(id) == 1

\* __slots__ of Particle: every particle object has a _tolerance of its own.
tolerance_slot(id) == id

\* Whether the call reads Particle.tolerance: the word has no coda, the
\* particle follows the general rule, and the style names the
\* representative tolerant form.
reads_tolerance(id, c, st) ==
    /\ c = None
    /\ id \notin {EuroId, IdaId}
    /\ st \notin 1..(Len(tolerances(PARTICLES[id])) - 1)

\* Hello, 남
ThreadWords == { <<72, 101, 108, 108, 111>>, <<45224>> }
\* 은, 을, 도
ThreadOptions == { <<51008>>, <<51012>>, <<46020>> }
ThreadStyles == {0, 2}

\* What the calls of the threads compute before they reach the slot: the
\* particle _particle_pattern finds for the option, and the coda of the word.
ThreadParticle == [o \in ThreadOptions |-> lookup(CatalogueOrder(0), o)]
ThreadCoda == [w \in ThreadWords |-> call_coda(w)]

RECURSIVE CallsMade(_, _)
CallsMade(ths, t) == IF t = 0 THEN 0 ELSE ths[t].calls + CallsMade(ths, t - 1)

Resting(n) == [pc |-> "idle", word |-> <<>>, option |-> <<>>, st |-> 0, calls |-> n]

InitThreads ==
    /\ pc = "start"
    /\ Uncalled
    /\ pair = <<>> /\ yielded = <<>> /\ tolerance_style = 0
    /\ cursor = <<>>
    /\ catalogue = PARTICLES
    /\ particle_index = _particles
    /\ threads = [t \in 1..MaxThreads |-> Resting(0)]
    /\ cache = [id \in 1..Len(PARTICLES) |-> None]
    /\ history = {}

threadVars == <<pc, letter, phonemes, word, option, style, explicit, coda,
                particle, out, raised, pair, yielded, tolerance_style,
                catalogue, particle_index, cursor>>

\* The particle object the index holds for a group.
indexed(id) == catalogue[(CHOOSE e \in particle_index : e[1] = id)[2]]

\* A thread calls the extension, while fewer than MaxCalls calls have been
\* made by all threads: the particle is looked up and the coda of the word
\* inferred; a call that does not need the representative tolerant form
\* returns at once, the others enter Particle.tolerance.
BeginCall(t) ==
    /\ threads[t].pc = "idle"
    /\ CallsMade(threads, MaxThreads) < MaxCalls
    /\ \E w \in ThreadWords, o \in ThreadOptions, st \in ThreadStyles :
       \E id \in {ThreadParticle[o]} :
       \E c \in {ThreadCoda[w]} :
           IF reads_tolerance(id, c, st)
           THEN /\ threads' = [threads EXCEPT ![t] =
                       [pc |-> "hasattr", word |-> w, option |-> o, st |-> st,
                        calls |-> threads[t].calls + 1]]
                /\ history' = history
           ELSE /\ threads' = [threads EXCEPT ![t] = Resting(threads[t].calls + 1)]
                /\ history' = history \cup
                       { <<w, o, st,
                           IF c = None
                           THEN tolerance_at(indexed(id), st) \o particle_match(id, o)
                           ELSE ParticleAllomorph(indexed(id), c) \o particle_match(id, o)>> }
    /\ cache' = cache
    /\ UNCHANGED threadVars

\* if not hasattr(self, '_tolerance')
HasTolerance(t) ==
    /\ threads[t].pc = "hasattr"
    /\ \E id \in {ThreadParticle[threads[t].option]} :
           threads' = [threads EXCEPT ![t].pc =
               IF cache[tolerance_slot(id)] = None THEN "store" ELSE "return"]
    /\ UNCHANGED <<cache, history>>
    /\ UNCHANGED threadVars

\* self._tolerance = next(self.tolerances())
StoreTolerance(t) ==
    /\ threads[t].pc = "store"
    /\ \E id \in {ThreadParticle[threads[t].option]} :
           cache' = [cache EXCEPT ![tolerance_slot(id)] = tolerance(indexed(id))]
    /\ threads' = [threads EXCEPT ![t].pc = "return"]
    /\ history' = history
    /\ UNCHANGED threadVars

\* return self._tolerance, and the call returns it with the remainder
ReturnTolerance(t) ==
    /\ threads[t].pc = "return"
    /\ \E id \in {ThreadParticle[threads[t].option]} :
           history' = history \cup
               { <<threads[t].word, threads[t].option, threads[t].st,
                   cache[tolerance_slot(id)] \o particle_match(id, threads[t].option)>> }
    /\ threads' = [threads EXCEPT ![t] = Resting(threads[t].calls)]
    /\ cache' = cache
    /\ UNCHANGED threadVars

NextThreads ==
    \E t \in 1..MaxThreads :
        \/ BeginCall(t)
        \/ HasTolerance(t)
        \/ StoreTolerance(t)
        \/ ReturnTolerance(t)

SpecThreads == InitThreads /\ [][NextThreads]_vars

----------------------------------------------------------------------------
(* The claims                                                              *)

\* C3: every Hangul syllable U+AC00..U+D7A3 is split into an onset, a nucleus
\* and a coda whose indices lie inside the tables of 19 onsets, 21 nuclei and
\* 28 coda slots, neither step raises, and joining the three phonemes gives
\* the syllable back.
C3_RoundTrip ==
    (Len(letter) = 1 /\ letter[1] \in 44032..55203 /\ pc # "start") =>
        LET ix == split_index(letter)
        IN  /\ raised = ""
            /\ NUM_INITIALS = 19 /\ NUM_VOWELS = 21 /\ NUM_FINALS = 28
            /\ ix[1] \in 0..18 /\ ix[2] \in 0..20 /\ ix[3] \in 0..27
            /\ phonemes = <<INITIALS[ix[1] + 1], VOWELS[ix[2] + 1], FINALS[ix[3] + 1]>>
            /\ letter[1] = 44032 + (ix[1] * 21 + ix[2]) * 28 + ix[3]
            /\ pc = "joined" => out = letter

\* The last syllable, 힣, has been split into ㅎ ㅣ ㅎ and joined again.
C3_Witness ==
    /\ pc = "joined" /\ letter = <<55203>> /\ out = <<55203>>
    /\ phonemes = << <<12622>>, <<12643>>, <<12622>> >>

\* C1: for a catalogue particle with two different forms, Particle.allomorph
\* is decided by the coda alone: form1 for a non-empty coda, form2 for the
\* empty coda, and for coda None the bracketed form form1(form2) or, when
\* form1 ends with form2, (head)form2.
C1_CodaSelects ==
    (pc = "allomorph" /\ particle < EuroId /\
     PARTICLES[particle].form1 # PARTICLES[particle].form2) =>
        LET f1 == PARTICLES[particle].form1
            f2 == PARTICLES[particle].form2
        IN  /\ (coda # None /\ coda # <<>>) => out = f1
            /\ coda = <<>> => out = f2
            /\ coda = None =>
                   out = IF Len(f1) > Len(f2) /\ EndsWith(f1, f2)
                         THEN <<40>> \o Upto(f1, Len(f1) - Len(f2)) \o <<41>> \o f2
                         ELSE f1 \o <<40>> \o f2 \o <<41>>

\* 을/를 after the empty coda is 를.
C1_Witness ==
    /\ pc = "allomorph" /\ particle = 2 /\ coda = <<>> /\ out = <<47484>>

\* C4: for a form that is an optional 으 or (으) and then 로..., Euro.allomorph
\* returns the form from 로 onward behind a prefix that is empty exactly for
\* the empty coda and the coda ㄹ, 으 exactly for any other consonant, and
\* (으) exactly for coda None.
C4_EuroPrefix ==
    (pc = "allomorph" /\ particle = EuroId) =>
        LET k == IF StartsWith(option, <<47196>>) THEN 0
                 ELSE IF StartsWith(option, <<51004, 47196>>) THEN 1
                 ELSE IF StartsWith(option, <<40, 51004, 41, 47196>>) THEN 3
                 ELSE -1
            prefix == IF coda = None THEN <<40, 51004, 41>>
                      ELSE IF coda = <<>> \/ coda = <<12601>> THEN <<>>
                      ELSE <<51004>>
        IN  k >= 0 => out = prefix \o From(option, k)

\* (으)로에 after the coda ㄹ is 로에.
C4_Witness ==
    /\ pc = "allomorph" /\ particle = EuroId /\ coda = <<12601>>
    /\ option = <<40, 51004, 41, 47196, 50640>> /\ out = <<47196, 50640>>

C2_HangulCoda ==
    (pc = "called" /\ word # <<>> /\ word[Len(word)] \in 44032..55203) =>
        LET final == (word[Len(word)] - 44032) % 28
        IN  /\ coda # None
            /\ final = 0 => (coda = <<>> /\ (particle = 2 => out = <<47484>>))
            /\ final # 0 => coda = FINALS[final + 1]

C9_CopulaAccepts ==
    (/\ pc = "resolved"
     /\ option # <<>>
     /\ \A id \in 1..Len(PARTICLES) : ~pattern_matches(id, option)) =>
        (particle = IdaId /\ raised = "" /\ out # None)

\* C8: the particle looked up is, of the catalogue particles that match the
\* request, one whose match takes the most letters, Ida when none matches,
\* and the same particle in whatever order the catalogue is written; what
\* the match leaves of the request follows the allomorph unchanged: 과는
\* after 그 친구 gives 와는, 과(와)는 after 사건 gives 과는, and 만으로는 after
\* 사건 gives 만으로는.
C8_LongestMatch ==
    pc = "resolved" =>
        LET M == { id \in 1..Len(PARTICLES) : pattern_matches(id, option) }
            rest(id) == IF id = EuroId
                        THEN From(option, IF euro_prefix_end(option) > 0
                                          THEN euro_prefix_end(option) ELSE 0)
                        ELSE particle_match(id, option)
        IN  /\ M = {} => particle = IdaId
            /\ M # {} => /\ particle \in M
                         /\ \A j \in M : Len(rest(particle)) <= Len(rest(j))
                         /\ EndsWith(out, rest(particle))
            /\ \A k \in 0..MaxOrder : lookup(CatalogueOrder(k), option) = particle
            /\ (word = <<44536, 32, 52828, 44396>> /\ option = <<44284, 45716>>)
                 => out = <<50752, 45716>>
            /\ (word = <<49324, 44148>> /\ option = <<44284, 40, 50752, 41, 45716>>)
                 => out = <<44284, 45716>>
            /\ (word = <<49324, 44148>> /\ option = <<47564, 51004, 47196, 45716>>)
                 => out = <<47564, 51004, 47196, 45716>>

C12_FourOrderings ==
    pc = "generated" =>
        LET f1 == pair[1]
            f2 == pair[2]
        IN  (f1 # <<>> /\ f2 # <<>> /\ f1 # f2
             /\ ~EndsWith(f1, f2) /\ ~EndsWith(f2, f1)) =>
                /\ Len(yielded) = 4
                /\ yielded[1] = f1 \o <<40>> \o f2 \o <<41>>
                /\ yielded[2] = <<40>> \o f1 \o <<41>> \o f2
                /\ yielded[3] = f2 \o <<40>> \o f1 \o <<41>>
                /\ yielded[4] = <<40>> \o f2 \o <<41>> \o f1

\* 이 and 가 have yielded 이(가), (이)가, 가(이), (가)이.
C12_Witness ==
    /\ pc = "generated"
    /\ pair = << <<51060>>, <<44032>> >>
    /\ yielded = << <<51060, 40, 44032, 41>>, <<40, 51060, 41, 44032>>,
                    <<44032, 40, 51060, 41>>, <<40, 44032, 41, 51060>> >>

\* C13: for an integer digit run with k trailing zeros (one that is not all
\* zeros), the coda is that of the spoken name of the last digit
\* (영일이삼사오육칠팔구) when k = 0, and when k >= 1 that of the magnitude
\* name with the greatest table exponent <= k (1 십, 2 백, 3 천, 4 만, 8 억,
\* 12 조, ... 76 업), whatever the other digits are: the empty string for a
\* name that ends in a vowel, its final consonant otherwise (10 ㅂ, 200 ㄱ,
\* 30000 and 400000 ㄴ, 19 no coda, 0 ㅇ).
C13_SpokenCoda ==
    (pc = "picked" /\ IsDigits(word)) =>
        LET n == Len(word)
            zeros == { j \in 0..n : \A i \in (n - j + 1)..n : word[i] = 48 }
            k == CHOOSE j \in zeros : \A j2 \in zeros : j2 <= j
            codaOf(ch) == IF (ch - 44032) % 28 = 0 THEN <<>>
                          ELSE FINALS[((ch - 44032) % 28) + 1]
            below == { i \in 1..Len(EXPS) : EXPS[i][1] <= k }
            name == EXPS[CHOOSE i \in below : \A i2 \in below : i2 <= i][2]
        IN  /\ (k = 0) => coda = codaOf(DIGITS[(word[n] - 48) + 1])
            /\ (k \in 1..79 /\ k < n) => coda = codaOf(name[Len(name)])
            /\ word = <<49, 57>> => coda = <<>>
            /\ word = <<48>> => coda = <<12615>>

\* C14: for every integer digit string whose value is 10^80 or more (81 or
\* more digits from its first digit that is not 0), pick_coda_from_decimal
\* returns None, whatever the digits are.
C14_Unreadable ==
    (pc = "picked" /\ IsDigits(word)) =>
        LET n == Len(word)
            lead == { i \in 1..n : word[i] # 48 }
        IN  (lead # {} /\ \E i \in lead : n - i + 1 >= 81) => coda = None

C16_ValueErrorOnly ==
    (pc # "start" /\ style[1] = "unicode") =>
        LET s == style[2]
            m == first_match(CatalogueOrder(0), 1, s)
        IN  /\ raised \in {"", "ValueError"}
            /\ raised = "" => tolerance_style \in 0..3
            /\ m = 0 => raised = "ValueError"
            /\ (m # 0 /\ PARTICLES[m].form1 = PARTICLES[m].form2)
                   => raised = "ValueError"
            /\ (m # 0 /\ Len(generate_tolerances(PARTICLES[m].form1,
                                                  PARTICLES[m].form2)) # 4)
                   => raised = "ValueError"
            /\ (m # 0 /\ s \in {PARTICLES[m].form1, PARTICLES[m].form2})
                   => raised = "ValueError"

C19_FinalParenthetical ==
    pc = "called" =>
        LET n == Len(word)
        IN  /\ \A k \in 1..n :
                   ( /\ word[n] = 41
                     /\ word[k] = 40
                     /\ \A j \in (k + 1)..(n - 1) : word[j] \notin {40, 41} )
                   => coda = call_coda(Upto(word, k - 1))
            /\ ( /\ n > 0
                 /\ word[n] = 41
                 /\ \A j \in 1..n : word[j] # 40 )
               => coda = call_coda(Upto(word, n - 1))

\* C20: a particle of the catalogue whose form1 and form2 are equal has no
\* tolerant form, and a call that resolves to it returns form1 followed by
\* the remainder of the request, without an exception, for every word and
\* every tolerance style.
C20_InvariantParticle ==
    ( /\ pc = "resolved"
      /\ particle \in 1..Len(PARTICLES)
      /\ particle # EuroId
      /\ PARTICLES[particle].form1 = PARTICLES[particle].form2 )
    => /\ raised = ""
       /\ out = PARTICLES[particle].form1 \o particle_match(particle, option)
       /\ tolerances(PARTICLES[particle]) = <<>>

=============================================================================
